---- MODULE Spec2Model ----
(***************************************************************************)
(* Model of WSClient (private-bot-control/minescript/private_bridge.py):   *)
(* the reconnecting WebSocket client that runs in a background thread.     *)
(*                                                                         *)
(* Threads of the program:                                                 *)
(*   - the controller: the host thread that calls start() and stop(), one  *)
(*     call at a time (ctl is its position inside stop());                 *)
(*   - producers: any thread calling send() (one atomic put_nowait);       *)
(*   - lifecycle units: the threads spawned by start(), each running       *)
(*     _async_main on its own event loop. Slot Current holds the thread    *)
(*     self._thread refers to; the other slots hold threads that outlived  *)
(*     the join of stop() and that the client no longer refers to. A slot  *)
(*     whose thread has died is reused.                                    *)
(* The remote endpoint is the environment: it accepts or refuses a         *)
(* connection, drops it, and sends inbound frames.                         *)
(*                                                                         *)
(* Time is in tenths of a second. Wall-clock waits are abstracted: a wait  *)
(* that can outlast join(timeout=2) lets the join time out.                *)
(*                                                                         *)
(* Three specifications share the variables:                               *)
(*   - Spec / FairSpec: the client, called by arbitrary host code;         *)
(*   - DriverSpec: main(), the Session Driver, with the host's events,     *)
(*     player and clock (in milliseconds) as its environment;              *)
(*   - ParseSpec: parse_private_command applied to one line.               *)
(***************************************************************************)
EXTENDS Integers, Sequences, FiniteSets, TLC

\* ---- bounds of the model ----
MaxUnits == 2
MaxMsgs == 2
MaxSentinels == 2
MaxInbox == 1
MaxEcho == 1
MaxFails == 6
MaxEvents == 1
TickMs == 25
HorizonMs == 500

\* ---- program constants ----
BACKOFF_FLOOR == 5
BACKOFF_CAP == 50
JOIN_TIMEOUT == 20
POLL_INTERVAL_MS == 250
STOP == 0
HELLO == -1
Current == 1

Units == 1..MaxUnits

\* Inbound frames by what json.loads and data.get("type") make of them:
\*   garbage : not JSON (json.loads raises)
\*   nondict : valid JSON that is not an object (data.get raises AttributeError)
\*   other   : an object of unknown type
\*   ack, error : objects with that type
FrameKinds == {"garbage", "nondict", "other", "ack", "error"}

StreamingPcs == {"get", "sending", "drain"}

VARIABLES
    tx_queue,   \* self.tx_queue: sequence of message ids and STOP sentinels
    thread,     \* self._thread: Current when it refers to a thread, 0 for None
    stop_evt,   \* self._stop_evt
    connected,  \* self._connected
    ctl,        \* controller position: "idle", "stop_put", "stop_join"
    nextMsg,    \* number of send() calls made so far (ids are 1..nextMsg)
    wire,       \* history: message ids written to any connection, in order
    echo,       \* number of "[PrivateBridge] error: ..." diagnostics emitted
    pc,         \* per unit: position in _async_main
    backoff,    \* per unit: local variable backoff
    fails,      \* per unit, history: backoff sleeps since the last successful connect
    item,       \* per unit: the dequeued item being sent, STOP when none
    conn,       \* per unit: "none", "open", "dropped"
    recv,       \* per unit: recv_task: "none", "run", "exited", "cancelled"
    frames,     \* per unit, history: frames written on the current connection
    inbox,      \* per unit: inbound frames received by the socket, not yet read
    dpc,        \* main(): position of the Session Driver ("off": not running)
    evq,        \* main(): whether minescript.EventQueue could be imported
    now,        \* time.time() * 1000.0, the clock in milliseconds
    t0,         \* history: the clock when main() entered its loop
    deadline,   \* the clock value at which the current timed wait ends
    event,      \* main(): local variable event
    nEvents,    \* history: host events delivered so far
    last_state_ms, \* main(): local variable last_state_ms
    player,     \* the host session: "none" (no player), "free", "block"
    msg,        \* main(): local variable msg (the argument of the parser)
    cmd,        \* main(): local variable cmd (the result of the parser)
    chat_out,   \* history: texts given to minescript.chat
    log_out,    \* history: lines given to minescript.log
    payloads,   \* history: payload of message i, for the sends of main()
    sent_at,    \* history: the clock at each of these sends
    sawDown,    \* history: a due State was skipped, the client not connected
    sawNoPlayer \* history: a due State was skipped, build_state_payload None

drvVars == <<dpc, evq, now, t0, deadline, event, nEvents, last_state_ms, player,
             msg, cmd, chat_out, log_out, payloads, sent_at, sawDown, sawNoPlayer>>

vars == <<tx_queue, thread, stop_evt, connected, ctl, nextMsg, wire, echo,
          pc, backoff, fails, item, conn, recv, frames, inbox,
          dpc, evq, now, t0, deadline, event, nEvents, last_state_ms, player,
          msg, cmd, chat_out, log_out, payloads, sent_at, sawDown, sawNoPlayer>>

ctlVars == <<thread, ctl>>
unitVars == <<pc, backoff, fails, item, conn, recv, frames, inbox>>

Min(a, b) == IF a < b THEN a ELSE b

Alive(u) == pc[u] # "dead"

\* WSClient.__init__ (lines 101-108); no thread exists yet.
ClientInit ==
    /\ tx_queue = <<>>
    /\ thread = 0
    /\ stop_evt = FALSE
    /\ connected = FALSE
    /\ ctl = "idle"
    /\ nextMsg = 0
    /\ wire = <<>>
    /\ echo = 0
    /\ pc = [u \in Units |-> "dead"]
    /\ backoff = [u \in Units |-> BACKOFF_FLOOR]
    /\ fails = [u \in Units |-> 0]
    /\ item = [u \in Units |-> STOP]
    /\ conn = [u \in Units |-> "none"]
    /\ recv = [u \in Units |-> "none"]
    /\ frames = [u \in Units |-> <<>>]
    /\ inbox = [u \in Units |-> <<>>]

NoEvent == [type |-> "none"]
None == [ok |-> FALSE]

\* The locals and outputs of main() before its loop has done anything.
DriverFresh ==
    /\ event = NoEvent
    /\ nEvents = 0
    /\ last_state_ms = 0
    /\ cmd = None
    /\ chat_out = <<>>
    /\ log_out = <<>>
    /\ payloads = <<>>
    /\ sent_at = <<>>
    /\ sawDown = FALSE
    /\ sawNoPlayer = FALSE

\* The client on its own: main() is not running, other code of the host
\* calls start(), stop() and send().
Init ==
    /\ ClientInit
    /\ DriverFresh
    /\ msg = <<>>
    /\ dpc = "off"
    /\ evq = TRUE
    /\ now = 0
    /\ t0 = 0
    /\ deadline = 0
    /\ player = "none"

\* ---------------------------------------------------------------------------
\* Queue operations
\* ---------------------------------------------------------------------------
\* Faulty variant of put_nowait: the item is put at the head of the queue.
put_front(q, x) == <<x>> \o q

put_nowait(q, x) == Append(q, x)

Sentinels(q) == Cardinality({i \in 1..Len(q) : q[i] = STOP})

\* ---------------------------------------------------------------------------
\* Public operations
\* ---------------------------------------------------------------------------

\* start(), with the websockets package installed: no-op while self._thread
\* is alive; otherwise clears the stop event and spawns a new lifecycle thread.
start ==
    /\ ctl = "idle"
    /\ IF thread # 0 /\ Alive(thread)
       THEN UNCHANGED vars
       ELSE /\ pc[Current] = "dead"
            /\ stop_evt' = FALSE
            /\ thread' = Current
            /\ pc' = [pc EXCEPT ![Current] = "loop"]
            /\ backoff' = [backoff EXCEPT ![Current] = BACKOFF_FLOOR]
            /\ fails' = [fails EXCEPT ![Current] = 0]
            /\ UNCHANGED <<tx_queue, connected, ctl, nextMsg, wire, echo,
                           item, conn, recv, frames, inbox>>
    /\ UNCHANGED drvVars

\* stop(), line 121: self._stop_evt.set()
stop_set ==
    /\ ctl = "idle"
    /\ Sentinels(tx_queue) < MaxSentinels
    /\ stop_evt' = TRUE
    /\ ctl' = "stop_put"
    /\ UNCHANGED <<tx_queue, thread, connected, nextMsg, wire, echo>>
    /\ UNCHANGED unitVars
    /\ UNCHANGED drvVars

\* stop(), line 123: self.tx_queue.put_nowait({"_type": "STOP"})
stop_put ==
    /\ ctl = "stop_put"
    /\ tx_queue' = put_nowait(tx_queue, STOP)
    /\ ctl' = "stop_join"
    /\ UNCHANGED <<thread, stop_evt, connected, nextMsg, wire, echo>>
    /\ UNCHANGED unitVars
    /\ UNCHANGED drvVars

\* A wait of the unit that can last longer than join's timeout: the connection
\* attempt, a write, the closing handshake, or a backoff sleep above 2 s.
JoinMayTimeOut(u) ==
    \/ pc[u] \in {"connecting", "hello", "sending", "drain", "closing"}
    \/ pc[u] = "sleep" /\ backoff[u] > JOIN_TIMEOUT

\* The lowest free slot for a thread the client stops referring to.
FreeSlot(v) == /\ v # Current
               /\ pc[v] = "dead"
               /\ \A w \in Units : (w # Current /\ w < v) => pc[w] # "dead"

\* The thread of slot Current, still running, moves to slot v.
Orphan(f, v, d) == [f EXCEPT ![v] = f[Current], ![Current] = d]

\* stop(), lines 126-129: join(timeout=2) returns because the thread has
\* ended; then _thread = None and _connected = False.
stop_join ==
    /\ ctl = "stop_join"
    /\ \/ thread = 0
       \/ thread # 0 /\ ~Alive(thread)
    /\ thread' = 0
    /\ connected' = FALSE
    /\ ctl' = "idle"
    /\ UNCHANGED <<tx_queue, stop_evt, nextMsg, wire, echo>>
    /\ UNCHANGED unitVars
    /\ UNCHANGED drvVars

\* stop(), lines 126-129: join(timeout=2) returns because the timeout expired
\* with the thread still running; _thread = None drops the only reference to
\* it, and _connected = False.
stop_join_timeout ==
    /\ ctl = "stop_join"
    /\ thread # 0
    /\ Alive(thread)
    /\ JoinMayTimeOut(thread)
    /\ \E v \in Units :
         /\ FreeSlot(v)
         /\ pc' = Orphan(pc, v, "dead")
         /\ backoff' = Orphan(backoff, v, BACKOFF_FLOOR)
         /\ fails' = Orphan(fails, v, 0)
         /\ item' = Orphan(item, v, STOP)
         /\ conn' = Orphan(conn, v, "none")
         /\ recv' = Orphan(recv, v, "none")
         /\ frames' = Orphan(frames, v, <<>>)
         /\ inbox' = Orphan(inbox, v, <<>>)
    /\ thread' = 0
    /\ connected' = FALSE
    /\ ctl' = "idle"
    /\ UNCHANGED <<tx_queue, stop_evt, nextMsg, wire, echo>>
    /\ UNCHANGED drvVars

\* send(payload): put_nowait on the unbounded queue, from any thread.
send ==
    /\ nextMsg < MaxMsgs
    /\ nextMsg' = nextMsg + 1
    /\ tx_queue' = put_nowait(tx_queue, nextMsg + 1)
    /\ UNCHANGED <<thread, stop_evt, connected, ctl, wire, echo>>
    /\ UNCHANGED unitVars
    /\ UNCHANGED drvVars

\* is_connected()
is_connected == connected

\* ---------------------------------------------------------------------------
\* The lifecycle unit: _async_main
\* ---------------------------------------------------------------------------

\* Faulty variant of NextBackoff: the cap is applied before the doubling.
NextBackoff_capfirst(b) == Min(b, BACKOFF_CAP) * 2

\* line 184: backoff = min(backoff * 2.0, 5.0)
NextBackoff(b) == Min(b * 2, BACKOFF_CAP)

\* The connection-side state of unit u after a step.
SetUnit(u, p, it, c, r, fr, ib) ==
    /\ pc' = [pc EXCEPT ![u] = p]
    /\ item' = [item EXCEPT ![u] = it]
    /\ conn' = [conn EXCEPT ![u] = c]
    /\ recv' = [recv EXCEPT ![u] = r]
    /\ frames' = [frames EXCEPT ![u] = fr]
    /\ inbox' = [inbox EXCEPT ![u] = ib]

\* lines 145-146, the thread has just started: while not
\* self._stop_evt.is_set(); the coroutine returns and the thread ends when the
\* event is set.
loop_check(u) ==
    /\ pc[u] = "loop"
    /\ IF stop_evt
       THEN /\ pc' = [pc EXCEPT ![u] = "dead"]
            /\ backoff' = [backoff EXCEPT ![u] = BACKOFF_FLOOR]
            /\ fails' = [fails EXCEPT ![u] = 0]
       ELSE /\ pc' = [pc EXCEPT ![u] = "connecting"]
            /\ UNCHANGED <<backoff, fails>>
    /\ UNCHANGED <<tx_queue, stop_evt, connected, nextMsg, wire, echo>>
    /\ UNCHANGED ctlVars
    /\ UNCHANGED <<item, conn, recv, frames, inbox>>
    /\ UNCHANGED drvVars

\* lines 179-183 for unit u: clear the flag, then end the thread if the stop
\* event is set, else start the backoff sleep.
cleanup(u) ==
    /\ connected' = FALSE
    /\ IF stop_evt
       THEN /\ SetUnit(u, "dead", STOP, "none", "none", <<>>, <<>>)
            /\ backoff' = [backoff EXCEPT ![u] = BACKOFF_FLOOR]
            /\ fails' = [fails EXCEPT ![u] = 0]
       ELSE /\ SetUnit(u, "sleep", STOP, "none", "none", <<>>, <<>>)
            /\ fails' = [fails EXCEPT ![u] = Min(fails[u] + 1, MaxFails)]
            /\ UNCHANGED backoff

\* line 148 raises: the connection attempt fails (refused, timed out).
connect_fail(u) ==
    /\ pc[u] = "connecting"
    /\ cleanup(u)
    /\ UNCHANGED <<tx_queue, stop_evt, nextMsg, wire, echo>>
    /\ UNCHANGED ctlVars
    /\ UNCHANGED drvVars

\* Faulty variant of connect_ok: the sender loop is entered without the Hello.
connect_ok_nohello(u) ==
    /\ pc[u] = "connecting"
    /\ connected' = TRUE
    /\ backoff' = [backoff EXCEPT ![u] = BACKOFF_FLOOR]
    /\ fails' = [fails EXCEPT ![u] = 0]
    /\ SetUnit(u, "get", STOP, "open", "run", <<>>, <<>>)
    /\ UNCHANGED <<tx_queue, stop_evt, nextMsg, wire, echo>>
    /\ UNCHANGED ctlVars
    /\ UNCHANGED drvVars

\* lines 148-155: the connection opens; the flag is set, backoff is reset and
\* the Hello send begins.
connect_ok(u) ==
    /\ pc[u] = "connecting"
    /\ connected' = TRUE
    /\ backoff' = [backoff EXCEPT ![u] = BACKOFF_FLOOR]
    /\ fails' = [fails EXCEPT ![u] = 0]
    /\ SetUnit(u, "hello", STOP, "open", "none", <<>>, <<>>)
    /\ UNCHANGED <<tx_queue, stop_evt, nextMsg, wire, echo>>
    /\ UNCHANGED ctlVars
    /\ UNCHANGED drvVars

\* The sender loop is left (break, or its condition fails): lines 171-174
\* cancel the receiver task and the async with block starts closing the
\* socket, on which nothing more is written or read.
leave_block(u) ==
    SetUnit(u, "closing", STOP, "none",
            IF recv[u] = "none" THEN "none" ELSE "cancelled", <<>>, <<>>)

\* line 159: while not self._stop_evt.is_set(), reached with the receiver
\* task in state r and fr written on the connection.
sender_check(u, r, fr) ==
    IF stop_evt
    THEN SetUnit(u, "closing", STOP, "none", "cancelled", <<>>, <<>>)
    ELSE SetUnit(u, "get", STOP, conn[u], r, fr, inbox[u])

\* lines 155-159: the Hello is written, the receiver task is created and the
\* sender loop is entered.
hello_ok(u) ==
    /\ pc[u] = "hello"
    /\ conn[u] = "open"
    /\ sender_check(u, "run", Append(frames[u], HELLO))
    /\ UNCHANGED <<tx_queue, stop_evt, connected, nextMsg, wire, echo>>
    /\ UNCHANGED ctlVars
    /\ UNCHANGED <<backoff, fails>>
    /\ UNCHANGED drvVars

\* line 155 raises: the exception leaves the async with block (closing the
\* socket) and is caught at line 175.
hello_fail(u) ==
    /\ pc[u] = "hello"
    /\ conn[u] = "dropped"
    /\ leave_block(u)
    /\ UNCHANGED <<tx_queue, stop_evt, connected, nextMsg, wire, echo>>
    /\ UNCHANGED ctlVars
    /\ UNCHANGED <<backoff, fails>>
    /\ UNCHANGED drvVars

\* Faulty variant of get_item: the sentinel is treated as a message.
get_item_anyitem(u) ==
    /\ pc[u] = "get"
    /\ tx_queue # <<>>
    /\ tx_queue' = Tail(tx_queue)
    /\ SetUnit(u, "sending", Head(tx_queue), conn[u], recv[u], frames[u], inbox[u])
    /\ UNCHANGED <<stop_evt, connected, nextMsg, wire, echo>>
    /\ UNCHANGED ctlVars
    /\ UNCHANGED <<backoff, fails>>
    /\ UNCHANGED drvVars

\* lines 161-165, an item is available: a sentinel ends the sender loop, any
\* other item goes on to be written.
get_item(u) ==
    /\ pc[u] = "get"
    /\ tx_queue # <<>>
    /\ tx_queue' = Tail(tx_queue)
    /\ IF Head(tx_queue) = STOP
       THEN leave_block(u)
       ELSE SetUnit(u, "sending", Head(tx_queue), conn[u], recv[u], frames[u], inbox[u])
    /\ UNCHANGED <<stop_evt, connected, nextMsg, wire, echo>>
    /\ UNCHANGED ctlVars
    /\ UNCHANGED <<backoff, fails>>
    /\ UNCHANGED drvVars

\* lines 161-163 and 159: the queue stays empty for 0.25 s, get raises Empty,
\* and the loop condition is tested again.
get_empty(u) ==
    /\ pc[u] = "get"
    /\ tx_queue = <<>>
    /\ sender_check(u, recv[u], frames[u])
    /\ UNCHANGED <<tx_queue, stop_evt, connected, nextMsg, wire, echo>>
    /\ UNCHANGED ctlVars
    /\ UNCHANGED <<backoff, fails>>
    /\ UNCHANGED drvVars

\* line 167, the write: the frame goes out on an open connection; the
\* coroutine is then suspended inside ws.send until the write is flushed.
write_ok(u) ==
    /\ pc[u] = "sending"
    /\ conn[u] = "open"
    /\ wire' = Append(wire, item[u])
    /\ SetUnit(u, "drain", item[u], conn[u], recv[u], Append(frames[u], item[u]), inbox[u])
    /\ UNCHANGED <<tx_queue, stop_evt, connected, nextMsg, echo>>
    /\ UNCHANGED ctlVars
    /\ UNCHANGED <<backoff, fails>>
    /\ UNCHANGED drvVars

\* lines 167-170: ws.send raises on a connection that is gone, at the write
\* or while it is flushed; the failure is logged and the sender loop left.
\* The dequeued item is not put back.
write_fail(u) ==
    /\ pc[u] \in {"sending", "drain"}
    /\ conn[u] = "dropped"
    /\ leave_block(u)
    /\ UNCHANGED <<tx_queue, stop_evt, connected, nextMsg, wire, echo>>
    /\ UNCHANGED ctlVars
    /\ UNCHANGED <<backoff, fails>>
    /\ UNCHANGED drvVars

\* line 167 returns, then line 159.
write_done(u) ==
    /\ pc[u] = "drain"
    /\ sender_check(u, recv[u], frames[u])
    /\ UNCHANGED <<tx_queue, stop_evt, connected, nextMsg, wire, echo>>
    /\ UNCHANGED ctlVars
    /\ UNCHANGED <<backoff, fails>>
    /\ UNCHANGED drvVars

\* The async with block is left (the socket is closed), then lines 179-183.
close_done(u) ==
    /\ pc[u] = "closing"
    /\ cleanup(u)
    /\ UNCHANGED <<tx_queue, stop_evt, nextMsg, wire, echo>>
    /\ UNCHANGED ctlVars
    /\ UNCHANGED drvVars

\* lines 183-184 and 146: the sleep ends, backoff is doubled up to the cap
\* and the loop condition is tested.
wake(u) ==
    /\ pc[u] = "sleep"
    /\ IF stop_evt
       THEN /\ pc' = [pc EXCEPT ![u] = "dead"]
            /\ backoff' = [backoff EXCEPT ![u] = BACKOFF_FLOOR]
            /\ fails' = [fails EXCEPT ![u] = 0]
       ELSE /\ pc' = [pc EXCEPT ![u] = "connecting"]
            /\ backoff' = [backoff EXCEPT ![u] = NextBackoff(backoff[u])]
            /\ UNCHANGED fails
    /\ UNCHANGED <<tx_queue, stop_evt, connected, nextMsg, wire, echo>>
    /\ UNCHANGED ctlVars
    /\ UNCHANGED <<item, conn, recv, frames, inbox>>
    /\ UNCHANGED drvVars

\* ---------------------------------------------------------------------------
\* The receiver task: _recv_loop. It shares the unit's event loop, which runs
\* it only while _async_main is suspended in an await of the sender loop.
\* ---------------------------------------------------------------------------

\* line 190: json.loads(raw) succeeds
Decodes(f) == f # "garbage"

\* line 193: data.get exists only on a decoded object; on any other decoded
\* value the AttributeError is caught at line 201 and ends the loop.
HasGet(f) == f \in {"other", "ack", "error"}

\* lines 189-200 for one frame: the state of the receiver after it.
recv_after(f) ==
    IF ~Decodes(f) THEN "run"
    ELSE IF ~HasGet(f) THEN "exited"
    ELSE "run"

\* lines 197-200: the diagnostics echoed for one frame.
echo_of(f) == IF Decodes(f) /\ HasGet(f) /\ f = "error" THEN 1 ELSE 0

recv_frame(u) ==
    /\ pc[u] = "drain"
    /\ recv[u] = "run"
    /\ inbox[u] # <<>>
    /\ inbox' = [inbox EXCEPT ![u] = Tail(inbox[u])]
    /\ recv' = [recv EXCEPT ![u] = recv_after(Head(inbox[u]))]
    /\ echo' = echo + echo_of(Head(inbox[u]))
    /\ UNCHANGED <<tx_queue, stop_evt, connected, nextMsg, wire>>
    /\ UNCHANGED ctlVars
    /\ UNCHANGED <<pc, backoff, fails, item, conn, frames>>
    /\ UNCHANGED drvVars

\* lines 188 and 201-203: the iteration over a closed socket ends or raises.
recv_closed(u) ==
    /\ pc[u] = "drain"
    /\ recv[u] = "run"
    /\ inbox[u] = <<>>
    /\ conn[u] = "dropped"
    /\ recv' = [recv EXCEPT ![u] = "exited"]
    /\ UNCHANGED <<tx_queue, stop_evt, connected, nextMsg, wire, echo>>
    /\ UNCHANGED ctlVars
    /\ UNCHANGED <<pc, backoff, fails, item, conn, frames, inbox>>
    /\ UNCHANGED drvVars

\* ---------------------------------------------------------------------------
\* The remote endpoint
\* ---------------------------------------------------------------------------

\* The connection is lost: the remote closes it, the transport fails, or an
\* inbound frame exceeds max_size (line 148) and the library fails the
\* connection.
drop(u) ==
    /\ pc[u] \in {"hello"} \cup StreamingPcs
    /\ conn[u] = "open"
    /\ conn' = [conn EXCEPT ![u] = "dropped"]
    /\ UNCHANGED <<tx_queue, stop_evt, connected, nextMsg, wire, echo>>
    /\ UNCHANGED ctlVars
    /\ UNCHANGED <<pc, backoff, fails, item, recv, frames, inbox>>
    /\ UNCHANGED drvVars

PendingErrors ==
    Cardinality({<<u, i>> \in Units \X (1..MaxInbox) :
                    i <= Len(inbox[u]) /\ inbox[u][i] = "error"})

\* The remote sends a frame on an open connection.
deliver(u, f) ==
    /\ pc[u] \in {"hello"} \cup StreamingPcs
    /\ conn[u] = "open"
    /\ Len(inbox[u]) < MaxInbox
    /\ f = "error" => echo + PendingErrors < MaxEcho
    /\ inbox' = [inbox EXCEPT ![u] = Append(inbox[u], f)]
    /\ UNCHANGED <<tx_queue, stop_evt, connected, nextMsg, wire, echo>>
    /\ UNCHANGED ctlVars
    /\ UNCHANGED <<pc, backoff, fails, item, conn, recv, frames>>
    /\ UNCHANGED drvVars

\* ---------------------------------------------------------------------------
\* Specifications
\* ---------------------------------------------------------------------------
UnitStep(u) ==
    \/ loop_check(u)
    \/ connect_ok(u)
    \/ connect_fail(u)
    \/ hello_ok(u)
    \/ hello_fail(u)
    \/ get_item(u)
    \/ get_empty(u)
    \/ write_ok(u)
    \/ write_fail(u)
    \/ write_done(u)
    \/ close_done(u)
    \/ wake(u)

RecvStep(u) == recv_frame(u) \/ recv_closed(u)

Next ==
    \/ start
    \/ stop_set
    \/ stop_put
    \/ stop_join
    \/ stop_join_timeout
    \/ send
    \/ \E u \in Units : UnitStep(u)
    \/ \E u \in Units : RecvStep(u)
    \/ \E u \in Units : drop(u)
    \/ \E u \in Units : \E f \in FrameKinds : deliver(u, f)

Spec == Init /\ [][Next]_vars

\* The thread of a unit is scheduled and every wait of _async_main ends
\* (with either outcome); the event loop runs the receiver task whenever it
\* is ready and the loop is free; nothing is assumed of the callers or the
\* remote.
FairSpec ==
    /\ Spec
    /\ \A u \in Units : WF_vars(UnitStep(u))
    /\ \A u \in Units : WF_vars(RecvStep(u))

TypeOK ==
    /\ tx_queue \in Seq(0..MaxMsgs)
    /\ thread \in {0, Current}
    /\ stop_evt \in BOOLEAN
    /\ connected \in BOOLEAN
    /\ ctl \in {"idle", "stop_put", "stop_join"}
    /\ nextMsg \in 0..MaxMsgs
    /\ echo \in 0..MaxEcho
    /\ \A u \in Units :
         /\ pc[u] \in {"dead", "loop", "connecting", "hello", "sleep", "closing"}
                        \cup StreamingPcs
         /\ conn[u] \in {"none", "open", "dropped"}
         /\ recv[u] \in {"none", "run", "exited", "cancelled"}

\* ---------------------------------------------------------------------------
\* Text: a str is a sequence of one-character strings
\* ---------------------------------------------------------------------------
Max(a, b) == IF a > b THEN a ELSE b

\* str.isspace for one character (whitespace of the alphabet used here)
isspace(c) == c \in {" ", "\t"}

LowerOf == [c \in {"A", "B", "C", "E", "H", "I", "M", "N", "O"} |->
              CASE c = "A" -> "a" [] c = "B" -> "b" [] c = "C" -> "c"
                [] c = "E" -> "e" [] c = "H" -> "h" [] c = "I" -> "i"
                [] c = "M" -> "m" [] c = "N" -> "n" [] c = "O" -> "o"]

\* str.lower
lower(s) == [i \in 1..Len(s) |-> IF s[i] \in DOMAIN LowerOf THEN LowerOf[s[i]] ELSE s[i]]

\* str.strip: without the leading and the trailing whitespace
strip(s) ==
    LET keep == {i \in 1..Len(s) : ~isspace(s[i])}
    IN  IF keep = {} THEN <<>>
        ELSE SubSeq(s, CHOOSE i \in keep : \A j \in keep : i <= j,
                       CHOOSE i \in keep : \A j \in keep : i >= j)

\* str.split(): the maximal runs of non-whitespace characters, in order
RECURSIVE split(_)
split(s) ==
    IF s = <<>> THEN <<>>
    ELSE IF isspace(s[1]) THEN split(Tail(s))
    ELSE LET ends == {i \in 1..Len(s) : isspace(s[i])}
             n == IF ends = {} THEN Len(s) + 1
                  ELSE CHOOSE i \in ends : \A j \in ends : i <= j
         IN  <<SubSeq(s, 1, n - 1)>> \o split(SubSeq(s, n, Len(s)))

\* " ".join(parts)
RECURSIVE join(_)
join(parts) ==
    IF parts = <<>> THEN <<>>
    ELSE IF Len(parts) = 1 THEN parts[1]
    ELSE parts[1] \o <<" ">> \o join(Tail(parts))

\* ---------------------------------------------------------------------------
\* Configuration (lines 65-69)
\* ---------------------------------------------------------------------------
STATE_INTERVAL_MS == 125
PROTOCOL_VERSION == 1
MIN_WAIT_MS == 50

\* The alternatives of COMMAND_PATTERN, in order.
Verbs == << <<"c", "o", "m", "e">>,
            <<"f", "o", "l", "l", "o", "w">>,
            <<"m", "i", "n", "e">>,
            <<"h", "e", "l", "l", "o">> >>

\* Faulty variant of COMMAND_PATTERN_match: the pattern without (?:\s|$).
COMMAND_PATTERN_noboundary(s) ==
    /\ s # <<>>
    /\ s[1] = "/"
    /\ \E k \in 1..Len(Verbs) :
         LET n == Len(Verbs[k])
         IN  /\ Len(s) >= 1 + n
             /\ lower(SubSeq(s, 2, 1 + n)) = Verbs[k]

\* COMMAND_PATTERN.match(s), pattern ^/(come|follow|mine|hello)(?:\s|$) with
\* re.IGNORECASE: the slash, one of the verbs in any letter case, then a
\* whitespace character or the end of the string.
COMMAND_PATTERN_match(s) ==
    /\ s # <<>>
    /\ s[1] = "/"
    /\ \E k \in 1..Len(Verbs) :
         LET n == Len(Verbs[k])
         IN  /\ Len(s) >= 1 + n
             /\ lower(SubSeq(s, 2, 1 + n)) = Verbs[k]
             /\ \/ Len(s) = 1 + n
                \/ isspace(s[2 + n])

\* parse_private_command (lines 209-219)
parse_private_command(m) ==
    IF m = <<>> THEN None
    ELSE IF ~COMMAND_PATTERN_match(strip(m)) THEN None
    ELSE LET parts == split(Tail(strip(m)))
         IN  IF parts = <<>> THEN None
             ELSE [ok |-> TRUE, name |-> lower(parts[1]),
                   args |-> IF Len(parts) > 1 THEN Tail(parts) ELSE <<>>]

\* build_state_payload (lines 222-235) for the host session p: None without
\* a player, and lookingAt only with a block under the crosshair. (None
\* stands for None here too.)
build_state_payload(p) ==
    IF p = "none" THEN None
    ELSE IF p = "block"
         THEN [type |-> "state", v |-> PROTOCOL_VERSION, position |-> "xyz",
               rotation |-> "yaw_pitch", lookingAt |-> "block"]
         ELSE [type |-> "state", v |-> PROTOCOL_VERSION, position |-> "xyz",
               rotation |-> "yaw_pitch"]

\* lines 315-317: the Command payload; args is present only when not empty.
command_payload(c) ==
    IF c.args # <<>>
    THEN [type |-> "command", v |-> PROTOCOL_VERSION, name |-> c.name, args |-> c.args]
    ELSE [type |-> "command", v |-> PROTOCOL_VERSION, name |-> c.name]

\* line 319: the diagnostic line for a command
log_line(c) ==
    <<"[PrivateBridge] ">> \o c.name \o <<" ">> \o join(c.args)

\* ---------------------------------------------------------------------------
\* The Session Driver: main(). The host is the environment: it delivers
\* events, owns the player, and runs the clock. Time is the simulated clock
\* in milliseconds: a timed wait ends exactly at its deadline unless an event
\* ends it earlier, and the code between two waits takes no time. The client
\* is seen through send() and is_connected(); its lifecycle thread is the
\* environment here and changes the flag at any time.
\* ---------------------------------------------------------------------------

\* Chat texts delivered to main() in the driver specification.
DriverTexts ==
    { <<"/", "c", "o", "m", "e", " ", "1", "0", " ", "6", "4", " ", "-", "5">>,
      <<"h", "e", "l", "l", "o", " ", "t", "h", "e", "r", "e">>,
      <<"/", "M", "i", "n", "e">>,
      <<"/", "h", "e", "l", "l", "o", " ">>,
      <<" ", "h", "i">>,
      <<>> }

\* Events returned by eq.get. A message of None and an empty message are the
\* same to line 310.
HostEvents ==
    {[type |-> "world", connected |-> b] : b \in BOOLEAN}
    \cup {[type |-> "outgoing_chat_intercept", message |-> t] : t \in DriverTexts}

\* Clock values at the start of main(): a simulated clock at zero, and a
\* clock well past one interval, as time.time() is.
ClockStarts == {0, 1000}

\* lines 288 and 275: max(STATE_INTERVAL_MS / 1000.0, 0.05), in milliseconds
WaitMs == Max(STATE_INTERVAL_MS, MIN_WAIT_MS)

clientRest == <<thread, stop_evt, ctl, wire, echo,
                pc, backoff, fails, item, conn, recv, frames, inbox>>

DriverInit ==
    /\ ClientInit
    /\ DriverFresh
    /\ msg = <<>>
    /\ evq \in BOOLEAN
    /\ now \in ClockStarts
    /\ t0 = now
    /\ deadline = now + WaitMs
    /\ player \in {"none", "free", "block"}
    /\ dpc = IF evq THEN "wait" ELSE "fb_check"

\* client.send(payload) called by main(), lines 134-138.
client_send(payload) ==
    /\ nextMsg' = nextMsg + 1
    /\ tx_queue' = put_nowait(tx_queue, nextMsg + 1)
    /\ payloads' = Append(payloads, payload)
    /\ sent_at' = Append(sent_at, now)

\* Faulty variant of StateDue: a State is due only after more than one interval.
StateDue_strict(now_ms, last) == now_ms - last > STATE_INTERVAL_MS

\* lines 270 and 295: now_ms - last_state_ms >= STATE_INTERVAL_MS
StateDue(now_ms, last) == now_ms - last >= STATE_INTERVAL_MS

\* lines 270-274 and 295-299: the periodic state push at clock value now.
periodic_push ==
    LET due == StateDue(now, last_state_ms) /\ is_connected
        st == build_state_payload(player)
    IN  /\ last_state_ms' = IF due THEN now ELSE last_state_ms
        /\ IF due /\ st # None
           THEN client_send(st)
           ELSE UNCHANGED <<nextMsg, tx_queue, payloads, sent_at>>
        /\ sawDown' = (sawDown \/ (StateDue(now, last_state_ms) /\ ~is_connected))
        /\ sawNoPlayer' = (sawNoPlayer \/ (due /\ st = None))

\* lines 288-292: eq.get times out (raises), event = None.
eq_timeout ==
    /\ dpc = "wait"
    /\ deadline - t0 <= HorizonMs
    /\ now' = deadline
    /\ event' = NoEvent
    /\ dpc' = "push"
    /\ UNCHANGED <<evq, t0, deadline, nEvents, last_state_ms, player, msg, cmd,
                   chat_out, log_out, payloads, sent_at, sawDown, sawNoPlayer>>
    /\ UNCHANGED <<tx_queue, connected, nextMsg>>
    /\ UNCHANGED clientRest

\* lines 288-290: eq.get returns event e at clock value t, within the timeout.
eq_event(e, t) ==
    /\ dpc = "wait"
    /\ nEvents < MaxEvents
    /\ t >= now
    /\ t <= deadline
    /\ t - t0 <= HorizonMs
    /\ now' = t
    /\ event' = e
    /\ nEvents' = nEvents + 1
    /\ dpc' = "push"
    /\ UNCHANGED <<evq, t0, deadline, last_state_ms, player, msg, cmd,
                   chat_out, log_out, payloads, sent_at, sawDown, sawNoPlayer>>
    /\ UNCHANGED <<tx_queue, connected, nextMsg>>
    /\ UNCHANGED clientRest

\* lines 293-302: the periodic state push, then back to the wait when there
\* is no event.
state_push ==
    /\ dpc = "push"
    /\ periodic_push
    /\ IF event = NoEvent
       THEN dpc' = "wait" /\ deadline' = now + WaitMs
       ELSE dpc' = "handle" /\ UNCHANGED deadline
    /\ UNCHANGED <<evq, now, t0, event, nEvents, player, msg, cmd, chat_out, log_out>>
    /\ UNCHANGED connected
    /\ UNCHANGED clientRest

\* lines 304-307: a world event; the loop ends when the world disconnected.
handle_world ==
    /\ dpc = "handle"
    /\ event.type = "world"
    /\ IF event.connected
       THEN dpc' = "wait" /\ deadline' = now + WaitMs
       ELSE dpc' = "done" /\ UNCHANGED deadline
    /\ UNCHANGED <<evq, now, t0, event, nEvents, last_state_ms, player, msg, cmd,
                   chat_out, log_out, payloads, sent_at, sawDown, sawNoPlayer>>
    /\ UNCHANGED <<tx_queue, connected, nextMsg>>
    /\ UNCHANGED clientRest

\* lines 309-320: an intercepted chat line. What is not a command is given
\* back to minescript.chat; a command is sent to the client and logged.
handle_chat ==
    /\ dpc = "handle"
    /\ event.type = "outgoing_chat_intercept"
    /\ msg' = strip(event.message)
    /\ cmd' = parse_private_command(msg')
    /\ IF ~cmd'.ok
       THEN /\ chat_out' = Append(chat_out, msg')
            /\ UNCHANGED <<nextMsg, tx_queue, payloads, sent_at, log_out>>
       ELSE /\ client_send(command_payload(cmd'))
            /\ log_out' = Append(log_out, log_line(cmd'))
            /\ UNCHANGED chat_out
    /\ dpc' = "wait"
    /\ deadline' = now + WaitMs
    /\ UNCHANGED <<evq, now, t0, event, nEvents, last_state_ms, player,
                   sawDown, sawNoPlayer>>
    /\ UNCHANGED connected
    /\ UNCHANGED clientRest

\* lines 268-275, without EventQueue: the periodic push, then time.sleep.
fb_check ==
    /\ dpc = "fb_check"
    /\ periodic_push
    /\ dpc' = "fb_sleep"
    /\ deadline' = now + WaitMs
    /\ UNCHANGED <<evq, now, t0, event, nEvents, player, msg, cmd, chat_out, log_out>>
    /\ UNCHANGED connected
    /\ UNCHANGED clientRest

\* line 275: time.sleep returns.
fb_wake ==
    /\ dpc = "fb_sleep"
    /\ deadline - t0 <= HorizonMs
    /\ now' = deadline
    /\ dpc' = "fb_check"
    /\ UNCHANGED <<evq, t0, deadline, event, nEvents, last_state_ms, player, msg, cmd,
                   chat_out, log_out, payloads, sent_at, sawDown, sawNoPlayer>>
    /\ UNCHANGED <<tx_queue, connected, nextMsg>>
    /\ UNCHANGED clientRest

\* lines 276-277 and 323-326: KeyboardInterrupt ends main() from a wait.
interrupt ==
    /\ dpc \in {"wait", "fb_sleep"}
    /\ dpc' = "done"
    /\ UNCHANGED <<evq, now, t0, deadline, event, nEvents, last_state_ms, player, msg,
                   cmd, chat_out, log_out, payloads, sent_at, sawDown, sawNoPlayer>>
    /\ UNCHANGED <<tx_queue, connected, nextMsg>>
    /\ UNCHANGED clientRest

\* lines 149 and 179, seen from main(): the lifecycle thread sets or clears
\* the flag while main() waits.
lifecycle_flag ==
    /\ dpc \in {"wait", "fb_sleep"}
    /\ connected' = ~connected
    /\ UNCHANGED drvVars
    /\ UNCHANGED <<tx_queue, nextMsg>>
    /\ UNCHANGED clientRest

\* The host session changes while main() waits: the player appears or goes,
\* the crosshair meets or leaves a block (read at lines 80-95).
world_change(p) ==
    /\ dpc \in {"wait", "fb_sleep"}
    /\ p # player
    /\ player' = p
    /\ UNCHANGED <<dpc, evq, now, t0, deadline, event, nEvents, last_state_ms, msg,
                   cmd, chat_out, log_out, payloads, sent_at, sawDown, sawNoPlayer>>
    /\ UNCHANGED <<tx_queue, connected, nextMsg>>
    /\ UNCHANGED clientRest

DriverNext ==
    \/ eq_timeout
    \/ \E e \in HostEvents : \E k \in 0..(WaitMs \div TickMs) : eq_event(e, now + k * TickMs)
    \/ state_push
    \/ handle_world
    \/ handle_chat
    \/ fb_check
    \/ fb_wake
    \/ interrupt
    \/ lifecycle_flag
    \/ \E p \in {"none", "free", "block"} : world_change(p)

DriverSpec == DriverInit /\ [][DriverNext]_vars

\* ---------------------------------------------------------------------------
\* The parser on its own: parse_private_command applied to a line
\* ---------------------------------------------------------------------------
Pads == { <<>>, <<" ">>, <<"\t", " ">> }
Slashes == { <<>>, <<"/">> }
Words == { <<"c", "o", "m", "e">>, <<"C", "o", "M", "E">>,
           <<"f", "o", "l", "l", "o", "w">>, <<"M", "i", "n", "e">>,
           <<"h", "e", "l", "l", "o">>, <<"c", "o", "m", "e", "t">>,
           <<"c", "o">>, <<"g", "o">>, <<>> }
Rests == { <<>>, <<" ">>, <<" ", "a">>, <<"\t", "1", "0", " ", " ", "-", "5">>,
           <<" ", "A", "b", " ", "a", "\t">>, <<"/", "x">> }

\* The lines given to the parser.
Texts == { p[1] \o p[2] \o p[3] \o p[4] : p \in Pads \X Slashes \X Words \X Rests }

ParseInit ==
    /\ ClientInit
    /\ DriverFresh
    /\ msg \in Texts
    /\ dpc = "parse"
    /\ evq = TRUE
    /\ now = 0
    /\ t0 = 0
    /\ deadline = 0
    /\ player = "none"

\* line 311: cmd = parse_private_command(msg)
parse_call ==
    /\ dpc = "parse"
    /\ cmd' = parse_private_command(msg)
    /\ dpc' = "parsed"
    /\ UNCHANGED <<evq, now, t0, deadline, event, nEvents, last_state_ms, player, msg,
                   chat_out, log_out, payloads, sent_at, sawDown, sawNoPlayer>>
    /\ UNCHANGED <<tx_queue, connected, nextMsg>>
    /\ UNCHANGED clientRest

ParseNext == parse_call

ParseSpec == ParseInit /\ [][ParseNext]_vars

\* ---------------------------------------------------------------------------
\* Properties
\* ---------------------------------------------------------------------------
Stream(u) == pc[u] \in StreamingPcs

\* stop() has returned and start() has not been called since (or the client
\* was never started).
Stopped == ctl = "idle" /\ thread = 0

\* C1: messages are written in the order send() enqueued them (ids are given
\* in enqueue order, so the ids on the wire increase).
C1_FifoOrder ==
    \A i, j \in 1..Len(wire) : i < j => wire[i] < wire[j]

\* C2: whenever stop() has returned, every lifecycle unit has exited (socket
\* closed, both loops ended).
C2_StopReturnsAfterExit ==
    Stopped => \A u \in Units : pc[u] = "dead"

\* C3: there are never two lifecycle units alive at the same time.
C3_AtMostOneUnit ==
    Cardinality({u \in Units : Alive(u)}) <= 1

\* A step of a started client whose unit is in Streaming on an open
\* connection, with no stop() in progress, leaves the unit in Streaming.
C4_StayStreaming ==
    (thread = Current /\ ctl = "idle" /\ ctl' = "idle"
        /\ Stream(Current) /\ conn[Current] = "open")
    => Stream(Current)'

\* C4: after stop() returns (called once or twice, before or after start())
\* the flag is false and stays false until the next start(); the unit spawned
\* by the next start() stays in Streaming once it is there, as long as the
\* connection is open and stop() is not called.
C4_StopLeavesRestartable ==
    /\ [](Stopped => ~is_connected)
    /\ [][C4_StayStreaming]_vars

\* A step of a unit in Streaming whose receiver loop has exited takes the
\* unit out of Streaming.
C5_LeavesStreaming ==
    \A u \in Units :
        (recv[u] = "exited" /\ Stream(u) /\ pc'[u] # pc[u]) => ~Stream(u)'

\* C5: once the receiver loop has exited, the next step of its unit leaves
\* Streaming (whatever the queue holds); and when the sender loop is left the
\* receiver does not run on.
C5_EitherLoopEndsStreaming ==
    /\ [](\A u \in Units : pc[u] = "closing" => recv[u] # "run")
    /\ [][C5_LeavesStreaming]_vars

\* The delay, in tenths of a second, of the n-th consecutive backoff sleep.
Delay(n) == IF n >= 5 THEN 50 ELSE <<5, 10, 20, 40>>[n]

\* C6: the n-th backoff sleep since the last successful connect lasts
\* 0.5, 1.0, 2.0, 4.0, 5.0, 5.0, ... seconds; backoff is 0.5 s while a
\* connection is held; backoff is always within [0.5 s, 5.0 s].
C6_BackoffSequence ==
    \A u \in Units :
        /\ backoff[u] >= BACKOFF_FLOOR
        /\ backoff[u] <= BACKOFF_CAP
        /\ pc[u] = "sleep" => backoff[u] = Delay(fails[u])
        /\ pc[u] \in {"hello", "closing"} \cup StreamingPcs => backoff[u] = 5

\* The sixth consecutive sleep, the second one at the cap.
C6_Witness ==
    \E u \in Units : pc[u] = "sleep" /\ fails[u] = 6 /\ backoff[u] = 50

\* C7: on every connection the Hello is the first frame and is written once;
\* Streaming is entered only with the Hello written, and the Hello step waits
\* for no inbound frame.
C7_HelloFirstOnce ==
    \A u \in Units :
        /\ Stream(u) => frames[u] # <<>>
        /\ frames[u] # <<>> => frames[u][1] = HELLO
        /\ \A i \in 2..Len(frames[u]) : frames[u][i] # HELLO
        /\ (pc[u] = "hello" /\ conn[u] = "open") => ENABLED hello_ok(u)

\* A queued message has been written after the Hello, with more queued, and
\* no inbound frame was ever read.
C7_Witness ==
    \E u \in Units :
        /\ pc[u] = "drain"
        /\ Len(frames[u]) = 2
        /\ frames[u][1] = HELLO
        /\ inbox[u] = <<>>
        /\ echo = 0
        /\ tx_queue # <<>>

\* C8: after a transport failure on a connection in Streaming, a new
\* connection attempt follows unless stop() is called.
C8_ReconnectsAfterFailure ==
    \A u \in Units :
        (Stream(u) /\ conn[u] = "dropped") ~> (pc[u] = "connecting" \/ stop_evt)

\* A send() step (the only step that hands out a message id).
C9_SendStep ==
    nextMsg' # nextMsg =>
        /\ tx_queue' = Append(tx_queue, nextMsg')
        /\ UNCHANGED <<thread, stop_evt, connected, ctl, wire, echo>>
        /\ UNCHANGED unitVars

\* C9: send() is possible in every state, appends its message to the tail of
\* the queue and changes nothing else.
C9_SendOnlyEnqueues ==
    /\ [](nextMsg < MaxMsgs => ENABLED send)
    /\ [][C9_SendStep]_vars

\* send() was called on a stopped client, before and after stop().
C9_Witness ==
    /\ Stopped
    /\ stop_evt
    /\ Len(tx_queue) = 3
    /\ tx_queue[1] # STOP
    /\ tx_queue[2] = STOP
    /\ tx_queue[3] # STOP

\* C10: no inbound frame ends the receiver: while the connection is open and
\* the unit is in Streaming, the receiver loop is running.
C10_ReceiverSurvives ==
    \A u \in Units : (Stream(u) /\ conn[u] = "open") => recv[u] = "run"

\* A step of main() that handles an intercepted chat line: when the parser
\* says the line is no command, the line as delivered goes to minescript.chat
\* once and nothing is enqueued or logged; when it is a command, one Command
\* payload with the verb and the arguments is enqueued, one line is logged,
\* and nothing goes to minescript.chat.
C11_HandleStep ==
    (dpc = "handle" /\ event.type = "outgoing_chat_intercept" /\ dpc' # dpc) =>
        LET c == parse_private_command(event.message)
        IN  IF ~c.ok
            THEN /\ chat_out' = Append(chat_out, event.message)
                 /\ UNCHANGED <<tx_queue, nextMsg, payloads, log_out>>
            ELSE /\ nextMsg' = nextMsg + 1
                 /\ tx_queue' = Append(tx_queue, nextMsg')
                 /\ Len(payloads') = Len(payloads) + 1
                 /\ LET p == payloads'[Len(payloads')]
                    IN  /\ p.type = "command"
                        /\ p.name = c.name
                        /\ IF c.args = <<>> THEN DOMAIN p = {"type", "v", "name"}
                           ELSE p.args = c.args
                 /\ Len(log_out') = Len(log_out) + 1
                 /\ chat_out' = chat_out

\* C11: for every intercepted chat line main() does exactly one of the two:
\* forwards the original text unchanged, once, enqueueing nothing; or enqueues
\* one Command message, logs one line and forwards nothing.
C11_ExactlyOneOutcome == [][C11_HandleStep]_vars

\* The sends of main() that carried a State message.
C12_States == {i \in 1..Len(payloads) : payloads[i].type = "state"}

\* Two State messages are at least one interval apart.
C12_Spaced ==
    \A i, j \in C12_States : i < j => sent_at[j] - sent_at[i] >= STATE_INTERVAL_MS

\* A step that enqueues a State message starts with the client connected and
\* one interval or more after last_state_ms.
C12_EmitStep ==
    (Len(payloads') > Len(payloads) /\ payloads'[Len(payloads')].type = "state") =>
        /\ is_connected
        /\ now - last_state_ms >= STATE_INTERVAL_MS

\* The event loop has run for 500 ms with no event and has found the client
\* connected at every check that was due.
C12_Quiet500 ==
    /\ evq
    /\ dpc = "wait"
    /\ nEvents = 0
    /\ ~sawDown
    /\ now - t0 = 500

\* C12 as stated: a State message is enqueued only with the client connected
\* and one interval elapsed, two State messages are never less than one
\* interval apart, and a connected client and a quiet host give exactly 4
\* State messages in 500 ms.
C12_StateCadence ==
    /\ [][C12_EmitStep]_vars
    /\ []C12_Spaced
    /\ [](C12_Quiet500 => Cardinality(C12_States) = 4)

\* C12, amended: the same, the count of exactly 4 holding when the player
\* state was available at every check that was due.
C12_StateCadenceWithPlayer ==
    /\ [][C12_EmitStep]_vars
    /\ []C12_Spaced
    /\ []((C12_Quiet500 /\ ~sawNoPlayer) => Cardinality(C12_States) = 4)

\* 500 ms of a quiet host with client and player available throughout, and 4
\* State messages enqueued, the last one at the 500 ms boundary.
C12_Witness ==
    /\ C12_Quiet500
    /\ ~sawNoPlayer
    /\ Cardinality(C12_States) = 4
    /\ sent_at[Len(sent_at)] = now

\* What the parser is to return for line m: with t the trimmed line, the
\* whitelist verb that follows the slash of t in any letter case and is
\* followed by whitespace or the end of t, and the whitespace-separated tokens
\* of what follows that verb; None when there is no such verb.
C13_Expected(m) ==
    LET t == strip(m)
        fits(k) == /\ Len(t) >= 1 + Len(Verbs[k])
                   /\ t[1] = "/"
                   /\ lower(SubSeq(t, 2, 1 + Len(Verbs[k]))) = Verbs[k]
                   /\ \/ Len(t) = 1 + Len(Verbs[k])
                      \/ isspace(t[2 + Len(Verbs[k])])
    IN  IF \E k \in 1..Len(Verbs) : fits(k)
        THEN LET k == CHOOSE k \in 1..Len(Verbs) : fits(k)
             IN  [ok |-> TRUE, name |-> Verbs[k],
                  args |-> split(SubSeq(t, 2 + Len(Verbs[k]), Len(t)))]
        ELSE None

C14_FramesProcessed ==
    \A u \in Units :
        (Stream(u) /\ conn[u] = "open" /\ recv[u] = "run" /\ inbox[u] # <<>>)
        ~> (inbox[u] = <<>> \/ ~Stream(u) \/ conn[u] # "open" \/ recv[u] # "run")

\* C15: once stop() has set the stop event, every unit ends unless start()
\* clears the event again; and a backoff sleep that the stop event finds in
\* progress lasts no longer than one poll interval.
C15_StopEndsUnit ==
    /\ [](\A u \in Units :
            (stop_evt /\ pc[u] = "sleep") => backoff[u] * 100 <= POLL_INTERVAL_MS)
    /\ stop_evt ~> ((\A u \in Units : ~Alive(u)) \/ ~stop_evt)

\* A step taken while the stop event is set (and stays set) starts no
\* connection attempt, completes no Hello write, takes no unit into Streaming
\* and writes no message.
C16_StopStep ==
    (stop_evt /\ stop_evt' /\ ctl' = ctl) =>
        /\ wire' = wire
        /\ \A u \in Units :
            /\ pc'[u] = "connecting" => pc[u] = "connecting"
            /\ (pc[u] = "hello" /\ pc'[u] # "hello") => conn[u] = "dropped"
            /\ Stream(u)' => Stream(u)

\* C16: once the stop event is set, no unit starts a connection attempt,
\* writes a Hello, enters Streaming or writes a queued message.
C16_StopCheckedEverywhere == [][C16_StopStep]_vars

\* A step that takes a sentinel off the queue writes nothing and takes a unit
\* from the sender's poll out of Streaming.
C17_SentinelStep ==
    (tx_queue # <<>> /\ Head(tx_queue) = STOP /\ tx_queue' = Tail(tx_queue)) =>
        /\ wire' = wire
        /\ \E u \in Units : pc[u] = "get" /\ pc'[u] = "closing"

\* C17: the sentinel is never written: every frame written is the Hello or a
\* message given to send(), the item being written is such a message, and
\* the sender that dequeues the sentinel leaves without writing.
C17_SentinelNeverWritten ==
    /\ [](\A i \in 1..Len(wire) : wire[i] \in 1..nextMsg)
    /\ [](\A u \in Units :
            /\ \A i \in 1..Len(frames[u]) : frames[u][i] \in {HELLO} \cup (1..nextMsg)
            /\ pc[u] \in {"sending", "drain"} => item[u] \in 1..nextMsg)
    /\ [][C17_SentinelStep]_vars

\* stop() is waiting in join, its sentinel has been taken off the queue by a
\* unit that is now closing its connection, and a message was written.
C17_Witness ==
    /\ ctl = "stop_join"
    /\ tx_queue = <<>>
    /\ wire # <<>>
    /\ \E u \in Units : pc[u] = "closing"

\* A step that changes the flag is a step of a lifecycle unit (every step of
\* stop() changes ctl, and start() leaves the flag alone).
C18_FlagStep == connected' # connected => ctl' = ctl

\* C18: the flag is true only while some unit is inside its connection block
\* (so it is false when every unit is disconnected, connecting or in
\* backoff), and only a lifecycle unit changes it.
C18_FlagTracksLifecycle ==
    /\ [](is_connected =>
            \E u \in Units : pc[u] \in {"hello", "closing"} \cup StreamingPcs)
    /\ [][C18_FlagStep]_vars

\* C19: when the client has been started and no stop() is in progress, the
\* queue holds no sentinel (any sentinel there was left by an earlier stop()).
C19_NoStaleSentinel ==
    (thread = Current /\ ctl = "idle") => Sentinels(tx_queue) = 0

\* The number of places message m is in: the queue, the wire, and the units
\* that have dequeued it and not yet written it.
C20_Copies(m) ==
    Cardinality({i \in 1..Len(tx_queue) : tx_queue[i] = m})
    + Cardinality({i \in 1..Len(wire) : wire[i] = m})
    + Cardinality({u \in Units : pc[u] = "sending" /\ item[u] = m})

\* C20: every message accepted by send() is in exactly one place: queued,
\* dequeued and about to be written, or written once.
C20_NoLossNoDup ==
    \A m \in 1..nextMsg : C20_Copies(m) = 1

====
